---------------------------- MODULE Spec2Model ----------------------------
(***************************************************************************)
(* A model of morph::Anneal<T> (src/morph/Anneal.h), the adaptive          *)
(* simulated annealing optimiser, together with the client loop that       *)
(* drives it.                                                              *)
(*                                                                         *)
(* Numbers.  T is a floating point type; the model uses fixed point:       *)
(*  - parameter coordinates are integers counting 1/XU of a unit, and the  *)
(*    points the random generator can produce lie on a grid of step XG;    *)
(*  - objective values are integers; numeric_limits<T>::max() and          *)
(*    lowest() are FltMax and FltLowest;                                   *)
(*  - a temperature t > 0 is held as NegLn(t) = -ln(t) in 1/LU nats, so    *)
(*    that products of temperatures are sums and "colder" is "larger";     *)
(*  - the linear control parameters m, n, c, c_cost are held in 1/LU;      *)
(*  - a scale parameter (temperature_ratio_scale, ...) is a power of ten   *)
(*    and is held as its decimal exponent.                                 *)
(***************************************************************************)
EXTENDS Integers, Sequences, FiniteSets, TLC

\* ------------------------------------------------------------------ bounds
\* step() calls explored per run (the counter `steps` is unbounded in the code)
MaxSteps == 12
\* step() calls explored per run when generate_next's loop is followed draw by
\* draw
MaxGenSteps == 10
\* init() calls after the first are explored while steps is below this
MaxInitAgain == 2
\* step() calls explored in the runs followed to their stop
MaxDeepSteps == 25

\* --------------------------------------------------------- number formats
\* coordinate resolution: XU model units per 1.0
XU == 200
\* grid step of generated coordinates (half a unit)
XG == 100
\* resolution of logarithms and of the linear control parameters
LU == 1000
\* delta_param is held in 1/DU (0.01 is 1)
DU == 100
\* numeric_limits<T>::max() and lowest(): beyond every objective value
FltMax == 1000000
FltLowest == -FltMax
\* numeric_limits<T>::infinity(), which an objective may return
FltInf == 2 * FltMax
\* -ln(numeric_limits<double>::epsilon()) = 52 ln 2, in 1/LU
EpsNegLn == 36044
\* ln 10 and ln 2 in 1/LU
Ln10 == 2303
Ln2 == 693
\* std::exp(-q) is zero in T for q above ExpUnderflow
ExpUnderflow == 745
\* reanneal_test: "Don't reanneal too soon since the last reanneal"
ReannealGap == 10

\* --------------------------------------------------------------- std math
RECURSIVE Pow(_, _)
Pow(b, e) == IF e = 0 THEN 1 ELSE b * Pow(b, e - 1)

RECURSIVE Log2Floor(_)
Log2Floor(d) == IF d < 2 THEN 0 ELSE 1 + Log2Floor(d \div 2)

Abs(v) == IF v < 0 THEN -v ELSE v

\* ln(y / LU) * LU for LU <= y < 2 LU, by the series of 2 atanh((y-1)/(y+1))
LnMant(y) ==
    LET z  == ((y - LU) * LU) \div (y + LU)
        z3 == (z * z * z) \div (LU * LU)
        z5 == (z3 * z * z) \div (LU * LU)
    IN  2 * (z + (z3 \div 3) + (z5 \div 5))

\* std::log of a positive integer d, in 1/LU
LnInt(d) ==
    LET e == Log2Floor(d)
    IN  (e * Ln2) + LnMant((d * LU) \div Pow(2, e))

\* std::log of a positive linear fixed point value v (v / LU), in 1/LU
LnFix(v) == LnInt(v) - LnInt(LU)

\* std::log of a scale parameter 10^p
StdLog(p) == p * Ln10

\* std::exp(-l / LU) * LU * LU for l >= 0 (micro resolution)
ExpNeg(l) ==
    LET q  == l \div Ln2
        r  == l % Ln2
        t2 == (r * r) \div 2
        t3 == (r * r * r) \div 6000
        t4 == (((r * r) \div 1000) * ((r * r) \div 1000)) \div 24000
        e  == 1000000 - r * 1000 + t2 - t3 + t4
    IN  IF q > 30 THEN 0 ELSE e \div Pow(2, q)

\* a * (e / LU^2) without leaving 32 bits
MulMicro(a, e) == (((a \div 1000) * e) \div 1000) + (((a % 1000) * e) \div 1000000)

RECURSIVE SqrtBetween(_, _, _)
SqrtBetween(v, lo, hi) ==
    IF hi - lo <= 1 THEN lo
    ELSE LET mid == (lo + hi) \div 2
         IN  IF mid * mid <= v THEN SqrtBetween(v, mid, hi)
             ELSE SqrtBetween(v, lo, mid)

\* std::pow(j, 1/D) in 1/LU, for D = 1 and D = 2
Root(j, dim) ==
    IF dim = 1 THEN j * LU
    ELSE SqrtBetween(j * LU * LU, 0, 46340)


\* ---------------------------------------------------------------- vVector
\* a resize that overwrites what the vector held (assign instead of resize)
ResizeAssign(v, len, fill) == [i \in 1..len |-> fill]

\* vVector::resize (n, fill): keeps the elements it has, fills the new ones
Resize(v, len, fill) == [i \in 1..len |-> IF i <= Len(v) THEN v[i] ELSE fill]

\* vVector::set_from (scalar)
SetFrom(v, val) == [i \in 1..Len(v) |-> val]

RECURSIVE Sum(_)
Sum(v) == IF v = <<>> THEN 0 ELSE Head(v) + Sum(Tail(v))

\* vVector::mean (of temperatures held as NegLn this is exact when, as for
\* T_cost, all elements are equal)
mean(v) == Sum(v) \div Len(v)

\* vVector comparisons are true when they hold for every element
VecLe(a, b) == \A i \in 1..Len(a) : a[i] <= b[i]
VecGe(a, b) == \A i \in 1..Len(a) : a[i] >= b[i]
\* a < b for temperatures held as NegLn
TempLess(a, b) == \A i \in 1..Len(a) : a[i] > b[i]

VecAdd(a, b) == [i \in 1..Len(a) |-> a[i] + b[i]]

\* --------------------------------------------------------- the objective
\* The client's objective functions, defined on every coordinate vector.
\*   "floor": sum of floor(2 x_i)   "sq": sum of squares   "const": 0
\*   "barrier": sum of squares where every x_i >= 1, infinite elsewhere
Objectives == {"floor", "sq", "const", "barrier"}

F(obj, xv) ==
    CASE obj = "floor" -> Sum([i \in 1..Len(xv) |-> IF xv[i] >= 0 THEN xv[i] \div XG
                                                     ELSE -((XG - 1 - xv[i]) \div XG)])
      [] obj = "sq"    -> Sum([i \in 1..Len(xv) |-> xv[i] * xv[i]])
      [] obj = "barrier" -> IF \A i \in 1..Len(xv) : xv[i] >= XU
                            THEN Sum([i \in 1..Len(xv) |-> xv[i] * xv[i]])
                            ELSE FltInf
      [] OTHER         -> 0

\* ------------------------------------------------------------ the object
\* A default-constructed member set (the in-class initialisers).
Members ==
    [ downhill |-> TRUE, temperature_ratio_scale |-> -5,
      temperature_anneal_scale |-> 2, cost_parameter_scale_ratio |-> 0,
      acc_gen_reanneal_ratio |-> -6, delta_param |-> 1,
      f_x_best_repeat_max |-> 10, enable_reanneal |-> TRUE,
      reanneal_after_steps |-> 100, exit_at_T_f |-> FALSE,
      x_cand |-> <<>>, f_x_cand |-> 0, x |-> <<>>, f_x |-> 0,
      x_best |-> <<>>, f_x_best |-> 0, f_x_best_repeats |-> 0,
      x_plusdelta |-> <<>>, f_x_plusdelta |-> 0,
      num_improved |-> 0, num_worse |-> 0, num_worse_accepted |-> 0,
      num_accepted |-> 0, steps |-> 0, last_reanneal_steps |-> 0,
      param_hist_accepted |-> <<>>, f_param_hist_accepted |-> <<>>,
      param_hist_rejected |-> <<>>, f_param_hist_rejected |-> <<>>,
      param_names |-> <<>>, state |-> "Unknown",
      D |-> 0, k |-> 1, k_f |-> 0, k_r |-> 0,
      T_k |-> <<>>, T_0 |-> <<>>, T_f |-> <<>>, m |-> <<>>, n |-> <<>>,
      c |-> <<>>, c_cost |-> <<>>, T_cost_0 |-> <<>>, T_cost |-> <<>>,
      range_min |-> <<>>, range_max |-> <<>>, rdelta |-> <<>>, rmeans |-> <<>>,
      tangents |-> <<>> ]

\* Anneal (initial_params, param_ranges)
Anneal(initial_params, param_ranges) ==
    LET dim  == Len(initial_params)
        rmin == [i \in 1..dim |-> IF i <= Len(param_ranges) THEN param_ranges[i][1] ELSE 0]
        rmax == [i \in 1..dim |-> IF i <= Len(param_ranges) THEN param_ranges[i][2] ELSE 0]
    IN  [Members EXCEPT
            !.D = dim, !.range_min = rmin, !.range_max = rmax,
            !.rdelta = [i \in 1..dim |-> rmax[i] - rmin[i]],
            !.rmeans = [i \in 1..dim |-> (rmax[i] + rmin[i]) \div 2],
            !.x_cand = initial_params, !.x_best = initial_params,
            !.x = initial_params, !.state = "NeedToInit"]

\* init()
init(a) ==
    LET fb == IF a.downhill = TRUE THEN FltMax ELSE FltLowest
        mm == SetFrom(Resize(a.m, a.D, 0), -StdLog(a.temperature_ratio_scale))
        nn == SetFrom(Resize(a.n, a.D, 0), StdLog(a.temperature_anneal_scale))
        cc == [i \in 1..a.D |-> MulMicro(mm[i], ExpNeg(nn[i] \div a.D))]
        t0 == Resize(a.T_0, a.D, 0)
        cost == [i \in 1..a.D |-> cc[i] * Pow(10, a.cost_parameter_scale_ratio)]
        tc == [i \in 1..a.D |-> -LnFix(cost[i])]
    IN  [a EXCEPT
            !.f_x_best = fb, !.f_x = fb, !.f_x_cand = fb,
            !.x = Resize(a.x, a.D, 0), !.x_cand = Resize(a.x_cand, a.D, 0),
            !.x_best = Resize(a.x_best, a.D, 0),
            !.T_0 = t0, !.T_k = Resize(a.T_k, a.D, 0),
            !.m = mm, !.n = nn, !.c = cc,
            !.T_f = [i \in 1..a.D |-> t0[i] + mm[i]],
            !.k_f = Pow(10, a.temperature_anneal_scale),
            !.tangents = Resize(a.tangents, a.D, <<1, XU>>),
            !.c_cost = cost, !.T_cost_0 = tc, !.T_cost = tc,
            !.state = "NeedToCompute"]

\* stop_check()
stop_check(a) ==
    \/ a.exit_at_T_f = TRUE /\ TempLess(a.T_k, a.T_f)
    \/ a.T_k[1] >= EpsNegLn
    \/ a.T_cost[1] >= EpsNegLn
    \/ a.f_x_best_repeats >= a.f_x_best_repeat_max

\* a reset that forgets num_accepted
reset_stats_keeps_accepted(a) ==
    [a EXCEPT !.num_improved = 0, !.num_worse = 0, !.num_worse_accepted = 0,
              !.k_r = 0]

\* reset_stats()
reset_stats(a) ==
    [a EXCEPT !.num_improved = 0, !.num_worse = 0, !.num_worse_accepted = 0,
              !.num_accepted = 0, !.k_r = 0]

\* a schedule in which the temperatures rise with k: exp (-c / k^(1/D))
cooling_schedule_inverse(a) ==
    [a EXCEPT
        !.T_k = [i \in 1..a.D |-> a.T_0[i] + ((a.c[i] * LU) \div Root(a.k, a.D))],
        !.T_cost = [i \in 1..a.D |->
                       a.T_cost_0[i] + ((a.c_cost[i] * Root(a.num_accepted, a.D)) \div LU)]]

\* cooling_schedule()
cooling_schedule(a) ==
    [a EXCEPT
        !.T_k = [i \in 1..a.D |-> a.T_0[i] + ((a.c[i] * Root(a.k, a.D)) \div LU)],
        !.T_cost = [i \in 1..a.D |->
                       a.T_cost_0[i] + ((a.c_cost[i] * Root(a.num_accepted, a.D)) \div LU)]]

\* The value of p = exp(-(f_x_cand - f_x)/(eps + T_cost.mean())) as far as the
\* comparison with u in [0,1) needs it: "geone" (p >= 1), "frac" (0 < p < 1)
\* or "zero" (the exponential underflows).
AcceptP(a) ==
    LET d == a.f_x_cand - a.f_x
    IN  IF d <= 0 THEN "geone"
        ELSE IF LnInt(d) + mean(a.T_cost) > LnInt(ExpUnderflow) THEN "zero"
        ELSE "frac"

\* The draws of rng_u the model tells apart: 0, and a draw so close to 1 that
\* no p < 1 exceeds it.
UDraws == {0, 1}

\* accepted = p > u
Accepted(a, u) ==
    CASE AcceptP(a) = "geone" -> TRUE
      [] AcceptP(a) = "zero"  -> FALSE
      [] OTHER                -> u = 0

\* "the candidate has improved": acceptance_check lines 351-352
CandidateIsBetter(a) ==
    \/ a.downhill = TRUE /\ a.f_x_cand < a.f_x
    \/ a.downhill = FALSE /\ a.f_x_cand > a.f_x

\* the best point overwritten by every accepted candidate
IsNewBestAlways(a) == TRUE

\* "f_x_cand is better than f_x_best": the test of lines 373 and 374
IsNewBest(a) == a.f_x_cand < a.f_x_best

\* an accepted branch that moves x_best without recording its objective
Accept_forgets_best_objective(a) ==
    LET rep  == a.f_x_best_repeats + (IF a.f_x_cand = a.f_x_best THEN 1 ELSE 0)
        best == a.f_x_cand < a.f_x_best
    IN  [a EXCEPT
            !.x = a.x_cand, !.f_x = a.f_x_cand,
            !.param_hist_accepted = Append(a.param_hist_accepted, a.x_cand),
            !.f_param_hist_accepted = Append(a.f_param_hist_accepted, a.f_x_cand),
            !.f_x_best_repeats = IF best THEN 0 ELSE rep,
            !.x_best = IF best THEN a.x_cand ELSE a.x_best,
            !.num_accepted = a.num_accepted + 1]

\* the accepted branch of acceptance_check
Accept(a) ==
    LET rep  == a.f_x_best_repeats + (IF a.f_x_cand = a.f_x_best THEN 1 ELSE 0)
        best == IsNewBest(a)
    IN  [a EXCEPT
            !.x = a.x_cand, !.f_x = a.f_x_cand,
            !.param_hist_accepted = Append(a.param_hist_accepted, a.x_cand),
            !.f_param_hist_accepted = Append(a.f_param_hist_accepted, a.f_x_cand),
            !.f_x_best_repeats = IF best THEN 0 ELSE rep,
            !.x_best = IF best THEN a.x_cand ELSE a.x_best,
            !.f_x_best = IF best THEN a.f_x_cand ELSE a.f_x_best,
            !.num_accepted = a.num_accepted + 1]

\* a rejected branch that records the parameters without their objective
Reject_drops_objective(a) ==
    [a EXCEPT !.param_hist_rejected = Append(a.param_hist_rejected, a.x)]

\* the rejected branch of acceptance_check
Reject(a) ==
    [a EXCEPT
        !.param_hist_rejected = Append(a.param_hist_rejected, a.x),
        !.f_param_hist_rejected = Append(a.f_param_hist_rejected, a.f_x)]

\* an acceptance check that does not count the candidates that are worse
acceptance_check_skips_worse(a, u) ==
    LET better == CandidateIsBetter(a)
        acc    == Accepted(a, u)
        b == [a EXCEPT
                !.num_improved = IF better THEN a.num_improved + 1 ELSE a.num_improved,
                !.num_worse_accepted = IF ~better /\ acc THEN a.num_worse_accepted + 1
                                       ELSE a.num_worse_accepted]
    IN  IF acc THEN Accept(b) ELSE Reject(b)

\* acceptance_check(), with u the draw of rng_u
acceptance_check(a, u) ==
    LET better == CandidateIsBetter(a)
        acc    == Accepted(a, u)
        b == [a EXCEPT
                !.num_improved = IF better THEN a.num_improved + 1 ELSE a.num_improved,
                !.num_worse = IF better THEN a.num_worse ELSE a.num_worse + 1,
                !.num_worse_accepted = IF ~better /\ acc THEN a.num_worse_accepted + 1
                                       ELSE a.num_worse_accepted]
    IN  IF acc THEN Accept(b) ELSE Reject(b)

\* The values of y = sigu * T_k * ((1/T_k + 1)^u2 - 1) on the grid: u2 runs over
\* [0,1] and sigu is -1 for u < 0.5, so each y_i lies in [-1, 1).
YDraws == {j * XG : j \in (-(XU \div XG))..((XU \div XG) - 1)}

RECURSIVE Tuples(_, _)
Tuples(S, len) ==
    IF len = 0 THEN {<<>>}
    ELSE {Append(t, e) : t \in Tuples(S, len - 1), e \in S}

\* The candidates generate_next can leave in x_cand: x + y within the bounds
\* (the loop redraws until it finds one, and never exits when there is none).
NextCandidates(a) ==
    {xn \in {VecAdd(a.x, y) : y \in Tuples(YDraws, a.D)} :
        VecLe(xn, a.range_max) /\ VecGe(xn, a.range_min)}

\* generate_next(), with x_new the draw that ended the loop
generate_next(a, x_new) == [a EXCEPT !.x_cand = x_new]

\* generate_delta_parameter (x_start)
generate_delta_parameter(a, x_start) ==
    LET plus == [i \in 1..a.D |-> x_start[i] + ((x_start[i] * a.delta_param) \div DU)]
        plusminus == [i \in 1..a.D |->
                        IF plus[i] > a.range_max[i] \/ plus[i] < a.range_min[i]
                        THEN -1 ELSE 1]
    IN  [i \in 1..a.D |-> x_start[i] + ((plusminus[i] * x_start[i] * a.delta_param) \div DU)]

\* accepted_vs_generated() >= acc_gen_reanneal_ratio, the ratio being 10^p, p <= 0
\* (0/0 is NaN and compares false, n/0 is +inf)
RatioAtLeast(a) ==
    LET gen == a.num_improved + a.num_worse
    IN  IF gen = 0 THEN a.num_accepted > 0
        ELSE a.num_accepted * Pow(10, -a.acc_gen_reanneal_ratio) >= gen

\* a test that asks for a reanneal on the accepted:generated ratio alone
reanneal_due_ratio_only(a) ==
    /\ ~(a.steps - a.last_reanneal_steps < ReannealGap)
    /\ ~RatioAtLeast(a)

\* the gap test off by one: no reanneal until more than ReannealGap steps
reanneal_due_late(a) ==
    /\ ~(a.steps - a.last_reanneal_steps <= ReannealGap)
    /\ ~(a.k_r < a.reanneal_after_steps /\ RatioAtLeast(a))

\* the value reanneal_test() returns
reanneal_due(a) ==
    /\ ~(a.steps - a.last_reanneal_steps < ReannealGap)
    /\ ~(a.k_r < a.reanneal_after_steps /\ RatioAtLeast(a))

\* a reanneal request that leaves the current point where the walk is
reanneal_test_keeps_x(a) ==
    IF reanneal_due(a)
    THEN [a EXCEPT !.x_plusdelta = generate_delta_parameter(a, a.x)]
    ELSE a

\* reanneal_test(): what it does to the object
reanneal_test(a) ==
    IF reanneal_due(a)
    THEN [a EXCEPT !.x = a.x_best, !.f_x = a.f_x_best,
                   !.x_plusdelta = generate_delta_parameter(a, a.x_best)]
    ELSE a

\* ------------------------------------------------------------ reannealing
\* A tangent (f_x_plusdelta - f_x) / (x_plusdelta[i] - x[i] + eps) is held as
\* the pair <<numerator, x_plusdelta[i] - x[i]>>.
TanInf(t) == Abs(t[1]) >= FltMax /\ Abs(t[2]) < XU
TanZero(t) == t[1] = 0
\* ln of the denominator, in 1/LU (eps alone when the coordinates coincide)
LnDen(t) == IF t[2] = 0 THEN -EpsNegLn ELSE LnInt(Abs(t[2])) - LnInt(XU)
\* ln |tangent|, for a tangent that is not zero
LnAbsTan(t) == LnInt(Abs(t[1])) - LnDen(t)

has_nan_or_inf(tans) == \E i \in 1..Len(tans) : TanInf(tans[i])
has_zero(tans) == \E i \in 1..Len(tans) : TanZero(tans[i])

SeqMax(v) == CHOOSE e \in {v[i] : i \in 1..Len(v)} : \A j \in 1..Len(v) : v[j] <= e

Tangents(a) == [i \in 1..a.D |-> <<a.f_x_plusdelta - a.f_x, a.x_plusdelta[i] - a.x[i]>>]

\* T_re = (T_k * (max_tangent / tangents)).abs(), as NegLn
TRe(a, tans) ==
    LET lnmax == SeqMax([i \in 1..a.D |-> LnAbsTan(tans[i])])
    IN  [i \in 1..a.D |-> a.T_k[i] - (lnmax - LnAbsTan(tans[i]))]

\* T_re > T{0} fails only where a temperature has underflowed to zero
TRePositive(tre) == \A i \in 1..Len(tre) : tre[i] <= ExpUnderflow * LU

\* k_re = static_cast<unsigned int>(((T_0/T_re).log() / c).pow(D).mean())
KRe(a, tre) ==
    LET r == [i \in 1..a.D |-> ((tre[i] - a.T_0[i]) * LU) \div a.c[i]]
        p == [i \in 1..a.D |-> IF a.D = 1 THEN r[i] ELSE (r[i] * r[i]) \div LU]
    IN  mean(p) \div LU

\* a complete_reanneal() that lets non-finite tangents through
complete_reanneal_throws_late(a) ==
    LET tans == Tangents(a)
    IN  ~has_nan_or_inf(tans) /\ ~has_zero(tans) /\ ~TRePositive(TRe(a, tans))

\* complete_reanneal() throws
complete_reanneal_throws(a) ==
    LET tans == Tangents(a)
    IN  \/ has_nan_or_inf(tans)
        \/ ~has_zero(tans) /\ ~TRePositive(TRe(a, tans))

\* a complete_reanneal() that rescales T_k and leaves the step count k alone
complete_reanneal_keeps_k(a) ==
    LET tans == Tangents(a)
        b    == [a EXCEPT !.last_reanneal_steps = a.steps, !.tangents = tans]
        tre  == TRe(a, tans)
    IN  IF has_nan_or_inf(tans) THEN b
        ELSE IF has_zero(tans) THEN [b EXCEPT !.delta_param = 2 * a.delta_param]
        ELSE IF ~TRePositive(tre) THEN b
        ELSE [b EXCEPT !.T_k = tre,
                       !.num_improved = 0, !.num_worse = 0, !.num_worse_accepted = 0,
                       !.num_accepted = 0, !.k_r = 0]

\* a complete_reanneal() that takes T_re as the new initial temperature
complete_reanneal_rebases(a) ==
    LET tans == Tangents(a)
        b    == [a EXCEPT !.last_reanneal_steps = a.steps, !.tangents = tans]
        tre  == TRe(a, tans)
    IN  IF has_nan_or_inf(tans) THEN b
        ELSE IF has_zero(tans) THEN [b EXCEPT !.delta_param = 2 * a.delta_param]
        ELSE IF ~TRePositive(tre) THEN b
        ELSE [b EXCEPT !.k = 1, !.T_k = tre, !.T_0 = tre,
                       !.num_improved = 0, !.num_worse = 0, !.num_worse_accepted = 0,
                       !.num_accepted = 0, !.k_r = 0]

\* a complete_reanneal() that does not record the step it ran in
complete_reanneal_forgets_step(a) ==
    LET tans == Tangents(a)
        b    == [a EXCEPT !.tangents = tans]
        tre  == TRe(a, tans)
    IN  IF has_nan_or_inf(tans) THEN b
        ELSE IF has_zero(tans) THEN [b EXCEPT !.delta_param = 2 * a.delta_param]
        ELSE IF ~TRePositive(tre) THEN b
        ELSE [b EXCEPT !.k = KRe(a, tre), !.T_k = tre,
                       !.num_improved = 0, !.num_worse = 0, !.num_worse_accepted = 0,
                       !.num_accepted = 0, !.k_r = 0]

\* a deferral that resets the statistics as a completed reanneal does
complete_reanneal_defer_resets(a) ==
    LET tans == Tangents(a)
        b    == [a EXCEPT !.last_reanneal_steps = a.steps, !.tangents = tans]
        tre  == TRe(a, tans)
    IN  IF has_nan_or_inf(tans) THEN b
        ELSE IF has_zero(tans)
             THEN reset_stats([b EXCEPT !.delta_param = 2 * a.delta_param])
        ELSE IF ~TRePositive(tre) THEN b
        ELSE reset_stats([b EXCEPT !.k = KRe(a, tre), !.T_k = tre])

\* complete_reanneal(), when it returns
complete_reanneal(a) ==
    LET tans == Tangents(a)
        b    == [a EXCEPT !.last_reanneal_steps = a.steps, !.tangents = tans]
        tre  == TRe(a, tans)
    IN  IF has_nan_or_inf(tans) THEN b
        ELSE IF has_zero(tans) THEN [b EXCEPT !.delta_param = 2 * a.delta_param]
        ELSE IF ~TRePositive(tre) THEN b
        ELSE reset_stats([b EXCEPT !.k = KRe(a, tre), !.T_k = tre])

\* ------------------------------------------------------------------ step
\* a step() that runs cooling_schedule() before complete_reanneal()
step_accept_cools_first(a, u) ==
    LET a1 == [a EXCEPT !.steps = a.steps + 1]
        a2 == cooling_schedule(a1)
        a3 == IF a1.state = "NeedToComputeSet"
              THEN [a2 EXCEPT !.last_reanneal_steps = a1.steps,
                              !.tangents = Tangents(a1),
                              !.delta_param = IF has_zero(Tangents(a1))
                                              THEN 2 * a1.delta_param ELSE a1.delta_param,
                              !.k = IF has_zero(Tangents(a1)) THEN a1.k
                                    ELSE KRe(a2, TRe(a2, Tangents(a1))),
                              !.T_k = IF has_zero(Tangents(a1)) THEN a2.T_k
                                      ELSE TRe(a2, Tangents(a1)),
                              !.num_improved = IF has_zero(Tangents(a1)) THEN a1.num_improved ELSE 0,
                              !.num_worse = IF has_zero(Tangents(a1)) THEN a1.num_worse ELSE 0,
                              !.num_worse_accepted = IF has_zero(Tangents(a1))
                                                     THEN a1.num_worse_accepted ELSE 0,
                              !.num_accepted = IF has_zero(Tangents(a1)) THEN a1.num_accepted ELSE 0,
                              !.k_r = IF has_zero(Tangents(a1)) THEN a1.k_r ELSE 0,
                              !.state = "NeedToStep"]
              ELSE a2
    IN  acceptance_check(a3, u)

\* step() up to and including acceptance_check(), for a call that neither
\* stops nor throws; u is the draw of rng_u
step_accept(a, u) ==
    LET a1 == [a EXCEPT !.steps = a.steps + 1]
        a2 == IF a1.state = "NeedToComputeSet"
              THEN [complete_reanneal(a1) EXCEPT !.state = "NeedToStep"]
              ELSE a1
    IN  acceptance_check(cooling_schedule(a2), u)

\* the rest of step() with the reanneal test run whatever enable_reanneal says
step_finish_ignores_enable(a3, x_new) ==
    LET a4 == [a3 EXCEPT !.x_cand = x_new]
        a5 == [a4 EXCEPT !.k = a4.k + 1, !.k_r = a4.k_r + 1]
    IN  IF reanneal_due(a5)
        THEN [reanneal_test(a5) EXCEPT !.state = "NeedToComputeSet"]
        ELSE [a5 EXCEPT !.state = "NeedToCompute"]

\* the rest of step() without the assignment of line 274
step_finish_keeps_state(a3, x_new) ==
    LET a4 == [a3 EXCEPT !.x_cand = x_new]
        a5 == [a4 EXCEPT !.k = a4.k + 1, !.k_r = a4.k_r + 1]
    IN  IF a5.enable_reanneal /\ reanneal_due(a5)
        THEN [reanneal_test(a5) EXCEPT !.state = "NeedToComputeSet"]
        ELSE a5

\* the rest of step(): generate_next (x_new ends its loop), the counters, and
\* the reanneal test that chooses the state
step_finish(a3, x_new) ==
    LET a4 == generate_next(a3, x_new)
        a5 == [a4 EXCEPT !.k = a4.k + 1, !.k_r = a4.k_r + 1]
    IN  IF a5.enable_reanneal /\ reanneal_due(a5)
        THEN [reanneal_test(a5) EXCEPT !.state = "NeedToComputeSet"]
        ELSE [a5 EXCEPT !.state = "NeedToCompute"]

\* a stop that first completes the reanneal that was asked for
step_stop_completes(a) ==
    LET a1 == [a EXCEPT !.steps = a.steps + 1]
    IN  [(IF a.state = "NeedToComputeSet" THEN complete_reanneal(a1) ELSE a1)
            EXCEPT !.state = "ReadyToStop"]

\* a stop that clears the stagnation counter
step_stop_clears(a) ==
    [a EXCEPT !.steps = a.steps + 1, !.state = "ReadyToStop", !.f_x_best_repeats = 0]

\* step() when stop_check() is true
step_stop(a) == [a EXCEPT !.steps = a.steps + 1, !.state = "ReadyToStop"]

\* step() when complete_reanneal() throws: what it leaves behind
step_throw(a) ==
    [a EXCEPT !.steps = a.steps + 1, !.last_reanneal_steps = a.steps + 1,
              !.tangents = Tangents(a)]

\* ------------------------------------------------------------ the system
VARIABLES
    this,            \* the Anneal object
    client,          \* what the client loop does next: "init", "compute", "step"
    objective,       \* the client's objective function
    initial_params,  \* the constructor's first argument
    param_ranges,    \* the constructor's second argument
    file,            \* the HDF5 file at the path given to save()
    call,            \* the method the client called last, "none" before the first
    exception        \* "none", or the exception that left the last call

vars == <<this, client, objective, initial_params, param_ranges, file, call, exception>>

\* no file at the path yet
NoFile == [written |-> FALSE, data |-> <<>>]

\* The runs explored: constructor arguments, objective, and the parameters the
\* user sets between construction and init() (the others keep their defaults).
Run(ip, pr, obj, dh, tas, agr, rmax, er, ras, etf) ==
    [ip |-> ip, pr |-> pr, obj |-> obj, downhill |-> dh,
     temperature_anneal_scale |-> tas, acc_gen_reanneal_ratio |-> agr,
     f_x_best_repeat_max |-> rmax, enable_reanneal |-> er,
     reanneal_after_steps |-> ras, exit_at_T_f |-> etf]

Runs ==
    { Run(<<XG>>, <<<<0, XG>>>>, "floor", TRUE,  2, -6, 10, TRUE,  100, FALSE),
      Run(<<0>>,  <<<<0, XG>>>>, "floor", FALSE, 2, -6, 10, TRUE,  100, FALSE),
      Run(<<XG>>, <<<<0, XG>>>>, "floor", TRUE,  2,  0, 10, TRUE,  100, FALSE),
      Run(<<XG>>, <<<<0, XG>>>>, "floor", TRUE,  0, -6, 10, TRUE,  100, FALSE),
      Run(<<XG>>, <<<<0, XG>>>>, "floor", TRUE,  0, -6, 10, TRUE,  100, TRUE),
      Run(<<2 * XG>>, <<<<XG, 2 * XG>>>>, "sq", TRUE, 2, -6,  3, TRUE,   10, FALSE),
      Run(<<2 * XG>>, <<<<XG, 2 * XG>>>>, "sq", TRUE, 2, -6, 10, FALSE,  10, FALSE),
      Run(<<XG>>, <<<<XG, 2 * XG>>>>, "floor", FALSE, 2, -6, 10, TRUE,  100, FALSE),
      Run(<<XG>>, <<<<0, XG>>>>, "const", TRUE,  2, -6, 10, TRUE,   10, FALSE),
      Run(<<XG, XG>>, <<<<0, XG>>, <<XG, XG>>>>, "sq", TRUE, 2, -6, 10, TRUE, 10, FALSE),
      Run(<<2 * XG>>, <<<<2 * XG - 1, 2 * XG + 1>>>>, "sq", TRUE, 2, -6, 10, TRUE, 10, FALSE),
      Run(<<XG>>, <<<<0, XG>>>>, "floor", TRUE,  2, -6,  3, TRUE,  100, FALSE),
      Run(<<2 * XG>>, <<<<XG, 2 * XG>>>>, "barrier", TRUE, 2, -6, 10, TRUE, 10, FALSE) }

Configure(r) ==
    [Anneal(r.ip, r.pr) EXCEPT
        !.downhill = r.downhill,
        !.temperature_anneal_scale = r.temperature_anneal_scale,
        !.acc_gen_reanneal_ratio = r.acc_gen_reanneal_ratio,
        !.f_x_best_repeat_max = r.f_x_best_repeat_max,
        !.enable_reanneal = r.enable_reanneal,
        !.reanneal_after_steps = r.reanneal_after_steps,
        !.exit_at_T_f = r.exit_at_T_f]

Init ==
    \E r \in Runs :
        /\ this = Configure(r)
        /\ objective = r.obj
        /\ initial_params = r.ip
        /\ param_ranges = r.pr
        /\ file = NoFile
        /\ call = "none"
        /\ client = "init"
        /\ exception = "none"

\* the client calls init()
ClientInit ==
    /\ client = "init" /\ exception = "none"
    /\ this' = init(this)
    /\ client' = "compute"
    /\ call' = "init"
    /\ UNCHANGED <<objective, initial_params, param_ranges, file, exception>>

\* the client evaluates the objective the state asks for
ClientCompute ==
    /\ client = "compute" /\ exception = "none"
    /\ \/ /\ this.state = "NeedToCompute"
          /\ this' = [this EXCEPT !.f_x_cand = F(objective, this.x_cand)]
       \/ /\ this.state = "NeedToComputeSet"
          /\ this' = [this EXCEPT !.f_x = F(objective, this.x),
                                  !.f_x_plusdelta = F(objective, this.x_plusdelta)]
    /\ client' = "step"
    /\ call' = "compute"
    /\ UNCHANGED <<objective, initial_params, param_ranges, file, exception>>

\* the client calls step()
ClientStep ==
    /\ client = "step" /\ exception = "none"
    /\ this.steps < MaxSteps
    /\ call' = "step"
    /\ IF stop_check(this)
       THEN /\ this' = step_stop(this)
            /\ UNCHANGED <<client, exception>>
       ELSE IF this.state = "NeedToComputeSet" /\ complete_reanneal_throws(this)
       THEN /\ this' = step_throw(this)
            /\ exception' = "runtime_error"
            /\ UNCHANGED client
       ELSE \E u \in UDraws :
              LET a3 == step_accept(this, u)
              IN  \E x_new \in NextCandidates(a3) :
                    /\ this' = step_finish(a3, x_new)
                    /\ client' = "compute"
                    /\ UNCHANGED exception
    /\ UNCHANGED <<objective, initial_params, param_ranges, file>>

Next == ClientInit \/ ClientCompute \/ ClientStep

Spec == Init /\ [][Next]_vars

\* Constructions whose initial parameters lie outside the ranges: the
\* constructor takes them as they are (lines 201-203).
OutsideRuns ==
    { Run(<<2 * XG>>, <<<<0, XG>>>>, "floor", TRUE, 2, -6, 10, TRUE, 100, FALSE),
      Run(<<4 * XG>>, <<<<0, XG>>>>, "floor", TRUE, 2, -6, 10, TRUE, 100, FALSE) }

InitAnyStart ==
    \E r \in Runs \cup OutsideRuns :
        /\ this = Configure(r)
        /\ objective = r.obj
        /\ initial_params = r.ip
        /\ param_ranges = r.pr
        /\ file = NoFile
        /\ call = "none"
        /\ client = "init"
        /\ exception = "none"

SpecAnyStart == InitAnyStart /\ [][Next]_vars

\* ------------------------------------------- generate_next, draw by draw
\* The same system with the loop of generate_next followed one draw at a
\* time.  u is drawn from [0, 1) and y_i = sigu * T_k * ((1/T_k + 1)^u2 - 1) with
\* u2 = |2u - 1|: y_i is zero for the single draw u = 0.5 and for no other, so a
\* draw is either generic (every y_i differs from zero; the smallest one the
\* model tells apart is one coordinate unit) or it hits zero exactly in some
\* component.
YGen == (YDraws \ {0}) \cup {-1, 1}

GenericDraws(a) == Tuples(YGen, a.D)

ExactDraws(a) == Tuples(YGen \cup {0}, a.D) \ GenericDraws(a)

\* line 328: the test that ends the loop
InBounds(a, x_new) == VecLe(x_new, a.range_max) /\ VecGe(x_new, a.range_min)

GenRuns ==
    { Run(<<2 * XG>>, <<<<2 * XG, 2 * XG + 1>>>>, "sq", TRUE, 2, -6, 100, TRUE, 10, FALSE),
      Run(<<XG>>, <<<<XG, XG>>>>, "sq", TRUE, 2, -6, 100, TRUE, 10, FALSE),
      Run(<<2 * XG, XG>>, <<<<2 * XG, 2 * XG>>, <<XG, XG>>>>, "sq", TRUE, 2, -6, 100, TRUE, 10, FALSE) }

InitGen ==
    \E r \in GenRuns :
        /\ this = Configure(r)
        /\ objective = r.obj
        /\ initial_params = r.ip
        /\ param_ranges = r.pr
        /\ file = NoFile
        /\ call = "none"
        /\ client = "init"
        /\ exception = "none"

\* step() up to the call of generate_next()
StepBegin ==
    /\ client = "step" /\ exception = "none"
    /\ this.steps < MaxGenSteps
    /\ call' = "step"
    /\ IF stop_check(this)
       THEN /\ this' = step_stop(this)
            /\ UNCHANGED <<client, exception>>
       ELSE IF this.state = "NeedToComputeSet" /\ complete_reanneal_throws(this)
       THEN /\ this' = step_throw(this)
            /\ exception' = "runtime_error"
            /\ UNCHANGED client
       ELSE \E u \in UDraws :
              /\ this' = step_accept(this, u)
              /\ client' = "generate"
              /\ UNCHANGED exception
    /\ UNCHANGED <<objective, initial_params, param_ranges, file>>

\* one turn of the loop whose draw is generic and within the bounds: the loop
\* ends and step() runs to its return
GenerateExit ==
    /\ client = "generate"
    /\ \E y \in GenericDraws(this) :
          /\ InBounds(this, VecAdd(this.x, y))
          /\ this' = step_finish(this, VecAdd(this.x, y))
    /\ client' = "compute"
    /\ UNCHANGED <<objective, initial_params, param_ranges, file, call, exception>>

\* one turn of the loop whose draw hits zero exactly and is within the bounds
GenerateExitExact ==
    /\ client = "generate"
    /\ \E y \in ExactDraws(this) :
          /\ InBounds(this, VecAdd(this.x, y))
          /\ this' = step_finish(this, VecAdd(this.x, y))
    /\ client' = "compute"
    /\ UNCHANGED <<objective, initial_params, param_ranges, file, call, exception>>

\* one turn of the loop whose draw is outside the bounds: draw again
GenerateRedraw ==
    /\ client = "generate"
    /\ \E y \in GenericDraws(this) \cup ExactDraws(this) :
          ~InBounds(this, VecAdd(this.x, y))
    /\ UNCHANGED vars

NextGen ==
    \/ ClientInit \/ ClientCompute \/ StepBegin
    \/ GenerateExit \/ GenerateExitExact \/ GenerateRedraw

\* The client loop keeps running and the generator is fair to the generic
\* draws: a set of draws of positive length that would end the loop is drawn
\* from sooner or later.  It owes nothing to the single draw u = 0.5.
SpecGenFair ==
    /\ InitGen /\ [][NextGen]_vars
    /\ WF_vars(ClientInit) /\ WF_vars(ClientCompute) /\ WF_vars(StepBegin)
    /\ WF_vars(GenerateExit)

\* ------------------------------------------------- runs followed to the stop
\* Runs that start at the origin with a fast annealing schedule
\* (temperature_anneal_scale = 10, temperature_ratio_scale = 1e-7), followed
\* until stop_check() ends them.
DeepRuns ==
    { Run(<<0>>, <<<<0, XG>>>>, "sq", TRUE, 1, -6, 100, TRUE, 10, FALSE),
      Run(<<2 * XG>>, <<<<2 * XG - 1, 2 * XG + 1>>>>, "sq", TRUE, 1, -6, 100, TRUE, 10, FALSE) }

InitDeep ==
    \E r \in DeepRuns :
        /\ this = [Configure(r) EXCEPT !.temperature_ratio_scale = -7]
        /\ objective = r.obj
        /\ initial_params = r.ip
        /\ param_ranges = r.pr
        /\ file = NoFile
        /\ call = "none"
        /\ client = "init"
        /\ exception = "none"

\* the client calls step()
ClientStepDeep ==
    /\ client = "step" /\ exception = "none"
    /\ this.steps < MaxDeepSteps
    /\ call' = "step"
    /\ IF stop_check(this)
       THEN /\ this' = step_stop(this)
            /\ UNCHANGED <<client, exception>>
       ELSE IF this.state = "NeedToComputeSet" /\ complete_reanneal_throws(this)
       THEN /\ this' = step_throw(this)
            /\ exception' = "runtime_error"
            /\ UNCHANGED client
       ELSE \E u \in UDraws :
              LET a3 == step_accept(this, u)
              IN  \E x_new \in NextCandidates(a3) :
                    /\ this' = step_finish(a3, x_new)
                    /\ client' = "compute"
                    /\ UNCHANGED exception
    /\ UNCHANGED <<objective, initial_params, param_ranges, file>>

NextDeep == ClientInit \/ ClientCompute \/ ClientStepDeep

SpecDeep == InitDeep /\ [][NextDeep]_vars

\* -------------------------------------------------------------------- save
\* An HdfData object open for writing: the datasets written so far, in order,
\* and whether a call has thrown.
HdfData == [data |-> <<>>, thrown |-> FALSE]

\* HdfData::add_contained_vals (path, vals) for a container of scalars
\* (storable) or of vVectors (not storable): an empty container writes nothing
\* (line 671), an element type outside the if-constexpr chain throws (line 738)
add_contained_vals(h, path, vals, storable) ==
    IF h.thrown \/ vals = <<>> THEN h
    ELSE IF storable THEN [h EXCEPT !.data = Append(@, <<path, vals>>)]
    ELSE [h EXCEPT !.thrown = TRUE]

\* HdfData::add_string (path, str)
add_string(h, path, str) ==
    IF h.thrown THEN h ELSE [h EXCEPT !.data = Append(@, <<path, str>>)]

\* HdfData::add_val (path, val)
add_val(h, path, val) ==
    IF h.thrown THEN h ELSE [h EXCEPT !.data = Append(@, <<path, val>>)]

\* std::to_string (i), for the indices the runs reach
to_string(i) == CASE i = 1 -> "1" [] i = 2 -> "2" [] OTHER -> "3"

\* the loop over param_names (lines 288-292)
RECURSIVE add_names(_, _, _)
add_names(h, names, i) ==
    IF i > Len(names) THEN h
    ELSE add_names(add_string(h, "/param_name_" \o to_string(i), names[i]), names, i + 1)

\* save (path): the HdfData object when the call ends; the object itself is
\* not written to (the method is const)
save(a) ==
    LET h1 == add_contained_vals(HdfData, "/param_hist_accepted", a.param_hist_accepted, FALSE)
        h2 == add_contained_vals(h1, "/f_param_hist_accepted", a.f_param_hist_accepted, TRUE)
        h3 == add_contained_vals(h2, "/param_hist_rejected", a.param_hist_rejected, FALSE)
        h4 == add_contained_vals(h3, "/f_param_hist_rejected", a.f_param_hist_rejected, TRUE)
        h5 == add_contained_vals(h4, "/x_best", a.x_best, TRUE)
        h6 == add_names(h5, a.param_names, 1)
    IN  add_val(h6, "/f_x_best", a.f_x_best)

\* ------------------------------------------------------ calls in any order
\* A client that is free to call the public methods in any order, on objects
\* constructed from lists of equal or of different lengths.  The constructor
\* resizes the range vectors to the length of initial_params and then writes
\* one entry per element of param_ranges (lines 189-197): a shorter list
\* leaves the remaining ranges at zero, a longer one writes past the end of
\* the vectors, which is undefined.
CallRuns ==
    { Run(<<2 * XG>>, <<<<2 * XG - 1, 2 * XG + 1>>>>, "sq", TRUE, 2, -6, 100, TRUE, 10, FALSE),
      Run(<<XG, XG>>, <<<<XG, XG>>>>, "sq", TRUE, 2, -6, 100, TRUE, 10, FALSE),
      Run(<<XG>>, <<<<XG, XG>>, <<0, XG>>>>, "sq", TRUE, 2, -6, 100, TRUE, 10, FALSE) }

\* the names the client gives the parameters
CallNames(dim) == SubSeq(<<"x1", "x2">>, 1, dim)

InitAnyCall ==
    \E r \in CallRuns :
        /\ this = [Configure(r) EXCEPT !.param_names = CallNames(Len(r.ip))]
        /\ objective = r.obj
        /\ initial_params = r.ip
        /\ param_ranges = r.pr
        /\ file = NoFile
        /\ call = "none"
        /\ client = "init"
        /\ exception \in (IF Len(r.pr) > Len(r.ip) THEN {"none", "undefined"}
                                                 ELSE {"none"})

\* the client calls step() without having called init(): step() has no test
\* of the state, and stop_check() reads T_k[0] and T_cost[0] of vectors that
\* are still empty (lines 462-463), which is undefined.  Either the values
\* read make stop_check() true, or the read ends the program.
StepBeforeInit ==
    /\ client = "init" /\ this.state = "NeedToInit" /\ exception = "none"
    /\ \/ /\ this' = step_stop(this)
          /\ UNCHANGED exception
       \/ /\ this' = [this EXCEPT !.steps = this.steps + 1]
          /\ exception' = "undefined"
    /\ call' = "step"
    /\ UNCHANGED <<client, objective, initial_params, param_ranges, file>>

\* the client calls init() again: init() has no test of the state
InitAgain ==
    /\ client \in {"compute", "step"} /\ exception = "none"
    /\ this.steps < MaxInitAgain
    /\ this' = init(this)
    /\ client' = "compute"
    /\ call' = "init"
    /\ UNCHANGED <<objective, initial_params, param_ranges, file, exception>>

\* the client calls save (path)
ClientSave ==
    /\ exception = "none"
    /\ file' = [written |-> TRUE, data |-> save(this).data]
    /\ exception' = IF save(this).thrown THEN "runtime_error" ELSE "none"
    /\ call' = "save"
    /\ UNCHANGED <<this, client, objective, initial_params, param_ranges>>

NextAnyCall ==
    \/ ClientInit \/ ClientCompute \/ ClientStep
    \/ StepBeforeInit \/ InitAgain \/ ClientSave

SpecAnyCall == InitAnyCall /\ [][NextAnyCall]_vars

\* ------------------------------------------------------------------ claims
InRange(a, xv) == VecLe(xv, a.range_max) /\ VecGe(xv, a.range_min)

\* the step() calls so far that ran an acceptance check
Decided(a) == Len(a.param_hist_accepted) + Len(a.param_hist_rejected)

\* C1: right after construction the state is NeedToInit; right after init()
\* (no step() yet) the state is NeedToCompute and x_cand, x and x_best all
\* equal the initial parameters given to the constructor.
C1_Lifecycle ==
    /\ client = "init" => this.state = "NeedToInit"
    /\ (client # "init" /\ this.steps = 0) =>
          /\ this.state = "NeedToCompute"
          /\ this.x_cand = initial_params
          /\ this.x = initial_params
          /\ this.x_best = initial_params

C1_Witness ==
    /\ client = "compute" /\ this.steps = 0
    /\ this.state = "NeedToCompute"
    /\ this.x = initial_params /\ \E i \in 1..this.D : initial_params[i] # 0

\* C2: for every construction whose dimension counts match and whose ranges
\* are ordered, in every state from init() on, x_cand, x and x_best lie within
\* [range_min, range_max] componentwise.
C2_InBounds ==
    (/\ client # "init"
     /\ Len(this.range_min) = Len(initial_params)
     /\ VecLe(this.range_min, this.range_max))
    => /\ InRange(this, this.x_cand)
       /\ InRange(this, this.x)
       /\ InRange(this, this.x_best)

\* the client has evaluated what the state asked for and calls a step() that
\* will run the acceptance check
AboutToDecide ==
    /\ client = "step" /\ exception = "none"
    /\ this.state \in {"NeedToCompute", "NeedToComputeSet"}
    /\ ~stop_check(this)

\* this step ran the acceptance check and accepted the candidate
AcceptedNow ==
    Len(this'.param_hist_accepted) = Len(this.param_hist_accepted) + 1

\* C3: with a client that follows the per-step contract, f_x_cand is the
\* objective of the current x_cand every time the acceptance check runs (also
\* in the step() after NeedToComputeSet), so every pair in the accepted
\* history is a parameter vector with its own objective.
C3_FreshObjective ==
    /\ AboutToDecide => this.f_x_cand = F(objective, this.x_cand)
    /\ \A i \in 1..Len(this.param_hist_accepted) :
          this.f_param_hist_accepted[i] = F(objective, this.param_hist_accepted[i])

\* C4: after init(), f_x_best never regresses: from one state to the next it
\* stays equal or becomes strictly better in the configured direction.
C4_BestNeverRegresses ==
    [][this.state # "NeedToInit" =>
          \/ this'.f_x_best = this.f_x_best
          \/ this.downhill /\ this'.f_x_best < this.f_x_best
          \/ ~this.downhill /\ this'.f_x_best > this.f_x_best]_vars

C4_Witness ==
    /\ Len(this.f_param_hist_accepted) >= 2
    /\ this.f_x_best < this.f_param_hist_accepted[1]
    /\ this.num_worse_accepted > 0

\* C5: whenever the acceptance check accepts a candidate that is strictly
\* better than f_x_best in the configured direction, x_best becomes x_cand and
\* f_x_best becomes f_x_cand, downhill and uphill.
C5_BestFollowsDirection ==
    [][(/\ AcceptedNow
        /\ \/ this.downhill /\ this.f_x_cand < this.f_x_best
           \/ ~this.downhill /\ this.f_x_cand > this.f_x_best)
       => /\ this'.x_best = this.x_cand
          /\ this'.f_x_best = this.f_x_cand]_vars

\* C6: a strictly improving candidate (f_x_cand < f_x downhill, f_x_cand > f_x
\* uphill) is accepted whatever the draw u is.
C6_ImprovingAccepted ==
    [][(/\ AboutToDecide
        /\ this'.steps = this.steps + 1 /\ exception' = "none"
        /\ \/ this.downhill /\ this.f_x_cand < this.f_x
           \/ ~this.downhill /\ this.f_x_cand > this.f_x)
       => AcceptedNow]_vars

\* C8: a step() whose stop_check() is true increments steps, sets the state
\* to ReadyToStop and changes nothing else; a reanneal that was asked for is
\* not completed.
C8_StopFrame ==
    [][(client = "step" /\ exception = "none" /\ stop_check(this))
       => this' = [this EXCEPT !.steps = this.steps + 1, !.state = "ReadyToStop"]]_vars

\* a run that stopped in the very step() that followed a reanneal request
C8_Witness ==
    /\ this.state = "ReadyToStop"
    /\ this.x_plusdelta # <<>>
    /\ this.last_reanneal_steps = 0
    /\ this.delta_param = 1

\* C9: once a step() has returned ReadyToStop every later step() returns
\* ReadyToStop too.
C9_StopIsTerminal ==
    [][this.state = "ReadyToStop" => this'.state = "ReadyToStop"]_vars

\* two or more step() calls have found stop_check() true
C9_Witness ==
    /\ this.state = "ReadyToStop"
    /\ this.steps >= Decided(this) + 2

\* C10: a step() that does not stop returns NeedToComputeSet exactly when
\* enable_reanneal holds, steps - last_reanneal_steps >= 10 and
\* (k_r >= reanneal_after_steps or accepted/generated < acc_gen_reanneal_ratio),
\* on the values the step leaves; otherwise it returns NeedToCompute.
C10_ReannealRequested ==
    (this.steps >= 1 /\ this.state # "ReadyToStop" /\ exception = "none")
    => /\ this.state \in {"NeedToCompute", "NeedToComputeSet"}
       /\ this.state = "NeedToComputeSet" <=>
            /\ this.enable_reanneal
            /\ this.steps - this.last_reanneal_steps >= 10
            /\ \/ this.k_r >= this.reanneal_after_steps
               \/ this.num_accepted * Pow(10, -this.acc_gen_reanneal_ratio)
                    < this.num_improved + this.num_worse

\* both triggers: the step count, and the accepted:generated ratio
C10_Witness ==
    /\ this.state = "NeedToComputeSet"
    /\ this.k_r < this.reanneal_after_steps

\* C11: whenever step() returns NeedToComputeSet the current point has been
\* restored to the best point (x = x_best, f_x = f_x_best) and each component
\* of x_plusdelta is x[i] * (1 + delta_param) or x[i] * (1 - delta_param).
C11_ReannealPoint ==
    (this.state = "NeedToComputeSet" /\ client = "compute" /\ exception = "none")
    => /\ this.x = this.x_best
       /\ this.f_x = this.f_x_best
       /\ Len(this.x_plusdelta) = this.D
       /\ \A i \in 1..this.D :
             \/ this.x_plusdelta[i] * DU = this.x[i] * (DU + this.delta_param)
             \/ this.x_plusdelta[i] * DU = this.x[i] * (DU - this.delta_param)

\* a request made when the walk had left the best point: the last accepted
\* candidate is not x_best
C11_Witness ==
    /\ this.state = "NeedToComputeSet" /\ client = "compute"
    /\ Len(this.param_hist_accepted) > 0
    /\ this.param_hist_accepted[Len(this.param_hist_accepted)] # this.x_best
    /\ this.x = this.x_best /\ this.x_plusdelta # this.x

\* C12: whenever step() returns NeedToComputeSet, every component of
\* x_plusdelta lies within [range_min[i], range_max[i]], for every value of
\* delta_param and every in-bounds x_best.
C12_ProbeInBounds ==
    (/\ this.state = "NeedToComputeSet" /\ client = "compute" /\ exception = "none"
     /\ InRange(this, this.x_best))
    => InRange(this, this.x_plusdelta)

\* the client has computed the reanneal set and calls a step() whose
\* complete_reanneal() rescales the temperatures (no stop, no throw, no zero
\* tangent)
AboutToRescale ==
    /\ client = "step" /\ exception = "none"
    /\ this.state = "NeedToComputeSet"
    /\ ~stop_check(this)
    /\ ~complete_reanneal_throws(this)
    /\ ~has_zero(Tangents(this))

\* C13: when the step() call that completed a reanneal (rescaled the
\* temperatures) returns, num_improved, num_worse and num_accepted are zero.
C13_StatsZeroAfterReanneal ==
    [][(AboutToRescale /\ this'.steps = this.steps + 1)
       => /\ this'.num_improved = 0
          /\ this'.num_worse = 0
          /\ this'.num_accepted = 0]_vars

\* C13 as amended: complete_reanneal() leaves num_improved, num_worse and
\* num_accepted at zero when it has rescaled the temperatures; the step() that
\* called it then runs one acceptance check, so when it returns
\* num_improved + num_worse = 1 and num_accepted is 1 or 0 as that check
\* accepted or rejected.
C13_StatsCountOneDecision ==
    [][(AboutToRescale /\ this'.steps = this.steps + 1)
       => LET b == complete_reanneal([this EXCEPT !.steps = this.steps + 1])
          IN  /\ b.num_improved = 0 /\ b.num_worse = 0 /\ b.num_accepted = 0
              /\ this'.num_improved + this'.num_worse = 1
              /\ this'.num_accepted = (IF AcceptedNow THEN 1 ELSE 0)]_vars

\* a step() that completed a reanneal has returned, its candidate accepted
C13_Witness ==
    /\ client = "compute" /\ exception = "none"
    /\ this.last_reanneal_steps = this.steps /\ this.steps > ReannealGap
    /\ this.k_r = 1 /\ this.delta_param = 1
    /\ this.num_accepted = 1 /\ Len(this.param_hist_accepted) > 1

\* C14: a reanneal resets the stagnation counter f_x_best_repeats to zero
\* together with num_improved, num_worse, num_worse_accepted and num_accepted.
C14_RepeatsReset ==
    AboutToRescale =>
        LET b == complete_reanneal([this EXCEPT !.steps = this.steps + 1])
        IN  /\ b.f_x_best_repeats = 0
            /\ b.num_improved = 0 /\ b.num_worse = 0
            /\ b.num_worse_accepted = 0 /\ b.num_accepted = 0

\* stop_check() is true for stagnation alone
StagnationOnly(a) ==
    /\ a.f_x_best_repeats >= a.f_x_best_repeat_max
    /\ ~(a.exit_at_T_f = TRUE /\ TempLess(a.T_k, a.T_f))
    /\ ~(a.T_k[1] >= EpsNegLn)
    /\ ~(a.T_cost[1] >= EpsNegLn)

\* C15: step() stops for stagnation only after f_x_best_repeat_max
\* consecutive acceptances of the best objective: when stop_check() is true
\* solely because f_x_best_repeats >= f_x_best_repeat_max, each of the last
\* f_x_best_repeat_max accepted candidates had an objective equal to f_x_best.
C15_ConsecutiveRepeats ==
    (this.state # "NeedToInit" /\ this.f_x_best_repeat_max > 0 /\ StagnationOnly(this))
    => LET h == this.f_param_hist_accepted
       IN  /\ Len(h) >= this.f_x_best_repeat_max
           /\ \A i \in (Len(h) - this.f_x_best_repeat_max + 1)..Len(h) :
                 h[i] = this.f_x_best

\* this step ran the acceptance check and rejected the candidate
RejectedNow ==
    Len(this'.param_hist_rejected) = Len(this.param_hist_rejected) + 1

\* C16: every candidate (x_cand, f_x_cand) the acceptance check decides on is
\* appended with its objective to the accepted history when it is accepted
\* and to the rejected history when it is rejected, and to one of them only.
C16_HistoriesRecordCandidates ==
    [][(AboutToDecide /\ this'.steps = this.steps + 1 /\ exception' = "none")
       => LET ha == this'.param_hist_accepted
              hr == this'.param_hist_rejected
          IN  \/ /\ AcceptedNow /\ ~RejectedNow
                 /\ ha[Len(ha)] = this.x_cand
                 /\ this'.f_param_hist_accepted[Len(ha)] = this.f_x_cand
              \/ /\ RejectedNow /\ ~AcceptedNow
                 /\ hr[Len(hr)] = this.x_cand
                 /\ this'.f_param_hist_rejected[Len(hr)] = this.f_x_cand]_vars

\* the client has computed the reanneal set and calls a step() whose
\* complete_reanneal() finds a tangent that is exactly zero
AboutToDefer ==
    /\ client = "step" /\ exception = "none"
    /\ this.state = "NeedToComputeSet"
    /\ ~stop_check(this)
    /\ ~has_nan_or_inf(Tangents(this))
    /\ has_zero(Tangents(this))

\* C18: when complete_reanneal() finds a tangent that is exactly zero it
\* doubles delta_param and leaves T_k, k, k_r, num_improved, num_worse,
\* num_worse_accepted and num_accepted as they were before the call (the
\* step() that called it then adds its own one to k and k_r).
C18_DeferFrame ==
    [][(AboutToDefer /\ this'.steps = this.steps + 1)
       => LET b == complete_reanneal([this EXCEPT !.steps = this.steps + 1])
          IN  /\ b.delta_param = 2 * this.delta_param
              /\ b.T_k = this.T_k /\ b.k = this.k /\ b.k_r = this.k_r
              /\ b.num_improved = this.num_improved
              /\ b.num_worse = this.num_worse
              /\ b.num_worse_accepted = this.num_worse_accepted
              /\ b.num_accepted = this.num_accepted
              /\ this'.delta_param = 2 * this.delta_param
              /\ this'.k = this.k + 1 /\ this'.k_r = this.k_r + 1]_vars

\* a step() that deferred a reanneal has returned: delta_param is doubled and
\* the step and acceptance counters run on
C18_Witness ==
    /\ client = "compute" /\ exception = "none"
    /\ this.delta_param = 2
    /\ this.last_reanneal_steps = this.steps
    /\ this.k_r = this.steps /\ this.k_r > ReannealGap
    /\ this.num_accepted > 1

\* C20: if a tangent computed in complete_reanneal() is NaN or infinite,
\* step() fails with a fatal error instead of returning normally, and no
\* temperature is rescaled, k is not changed and the acceptance statistics
\* are not reset.
C20_NonFiniteIsFatal ==
    [][(/\ client = "step" /\ exception = "none"
        /\ this.state = "NeedToComputeSet"
        /\ ~stop_check(this)
        /\ has_nan_or_inf(Tangents(this))
        /\ this'.steps = this.steps + 1)
       => /\ exception' = "runtime_error"
          /\ this'.T_k = this.T_k /\ this'.k = this.k /\ this'.k_r = this.k_r
          /\ this'.num_improved = this.num_improved
          /\ this'.num_worse = this.num_worse
          /\ this'.num_worse_accepted = this.num_worse_accepted
          /\ this'.num_accepted = this.num_accepted]_vars

\* a step() has failed on an infinite tangent with statistics to lose
C20_Witness ==
    /\ exception = "runtime_error"
    /\ has_nan_or_inf(this.tangents)
    /\ this.k_r > 0 /\ this.num_accepted > 0 /\ this.k > 1

\* C17: generate_next always terminates and leaves x_cand inside
\* [range_min, range_max], for every in-bounds x and every temperature, also
\* with degenerate bounds range_min[i] = range_max[i].
C17_GenerateTerminates ==
    /\ [](InRange(this, this.x) => InRange(this, this.x_cand))
    /\ (client = "generate" /\ InRange(this, this.x)) ~> (client # "generate")

\* a complete_reanneal() of this run has rescaled the temperatures: k_r was
\* reset since the run began
Rescaled(a) == a.k_r < Decided(a)

\* C19: zero tangents are self-healing: after a deferral the reanneal is
\* requested again and, the objective being deterministic and not constant,
\* some later complete_reanneal() finds no zero tangent and rescales the
\* temperatures.  Read on a whole run: a run whose reanneal was deferred and
\* then tried again does not reach its stop with every try deferred.
C19_SelfHealing ==
    (/\ this.state = "ReadyToStop"
     /\ objective # "const"
     /\ this.delta_param >= 4)
    => Rescaled(this)

\* the last call ended in an exception thrown by the code
Raised == exception \notin {"none", "undefined"}

\* C21: constructing an annealer whose initial parameter vector and list of
\* per-dimension bounds differ in length fails with a construction error: no
\* object in state NeedToInit results from such arguments.
C21_LengthsChecked ==
    Len(initial_params) # Len(param_ranges)
    => (Raised /\ this.state # "NeedToInit")

\* C22: a step() called while the state is NeedToInit is reported as an
\* error: it raises, runs no annealing step and leaves the object as it was
\* (the state does not become NeedToCompute, NeedToComputeSet or ReadyToStop).
C22_StepNeedsInit ==
    [][(this.state = "NeedToInit" /\ call' = "step")
       => (Raised' /\ this' = this)]_vars

\* C23: init() requires the state NeedToInit: called in any other state (a
\* second time, or in the middle of a run) it raises and leaves the object as
\* it was; it does not set the state to NeedToCompute.
C23_InitNeedsNeedToInit ==
    [][(this.state # "NeedToInit" /\ call' = "init")
       => (Raised' /\ this' = this)]_vars

\* a dataset of the file: is it there, and what it holds
HasDataset(f, path) == \E i \in 1..Len(f.data) : f.data[i][1] = path

Dataset(f, path) ==
    f.data[CHOOSE i \in 1..Len(f.data) : f.data[i][1] = path][2]

\* the file holds the container under the path (an empty container has no
\* entries to hold)
Exported(f, path, vals) ==
    vals = <<>> \/ (HasDataset(f, path) /\ Dataset(f, path) = vals)

\* C24: in every reachable state, also with non-empty parameter histories,
\* save (path) completes without error and the file then holds the accepted
\* and rejected parameter histories, the accepted and rejected objective
\* histories, x_best, f_x_best and the parameter names.
C24_SaveExportsAll ==
    call = "save" =>
        /\ exception = "none"
        /\ file.written
        /\ Exported(file, "/param_hist_accepted", this.param_hist_accepted)
        /\ Exported(file, "/f_param_hist_accepted", this.f_param_hist_accepted)
        /\ Exported(file, "/param_hist_rejected", this.param_hist_rejected)
        /\ Exported(file, "/f_param_hist_rejected", this.f_param_hist_rejected)
        /\ Exported(file, "/x_best", this.x_best)
        /\ \A i \in 1..Len(this.param_names) :
              /\ HasDataset(file, "/param_name_" \o to_string(i))
              /\ Dataset(file, "/param_name_" \o to_string(i)) = this.param_names[i]
        /\ HasDataset(file, "/f_x_best")
        /\ Dataset(file, "/f_x_best") = this.f_x_best

\* C25: save (path) has no effect on the algorithm state: every member of the
\* object is the same before and after the call, and the call returns to the
\* client loop, so that a run with save() calls between its steps goes on
\* exactly as the run without them.
C25_SaveIsPure ==
    [][call' = "save"
       => (this' = this /\ client' = client /\ exception' = "none")]_vars

\* C26: absent a reanneal the temperatures decay monotonically: a step() that
\* neither stops nor rescales the temperatures in complete_reanneal() adds
\* exactly one to k and does not lower num_accepted, and each component of
\* T_k and of T_cost it computes is less than or equal to the value the step
\* before left (temperatures are held as negative logarithms, so the numbers
\* compared here do not decrease).
C26_TemperaturesDecay ==
    [][(/\ AboutToDecide /\ ~AboutToRescale
        /\ this'.steps = this.steps + 1 /\ exception' = "none")
       => /\ this'.k = this.k + 1
          /\ this'.num_accepted >= this.num_accepted
          /\ \A i \in 1..this.D :
                /\ this'.T_k[i] >= this.T_k[i]
                /\ this'.T_cost[i] >= this.T_cost[i]]_vars

\* several steps without a reanneal have cooled both temperatures
C26_Witness ==
    /\ client = "compute" /\ this.steps >= 3
    /\ this.last_reanneal_steps = 0
    /\ this.num_accepted >= 2
    /\ this.T_k[1] > this.c[1]
    /\ this.T_cost[1] > this.T_cost_0[1]

\* C27: with enable_reanneal false the annealer never reanneals: no step()
\* returns NeedToComputeSet, reanneal_test never sets x back to x_best (x is
\* the last accepted candidate and no x_plusdelta is ever generated),
\* complete_reanneal never runs (last_reanneal_steps and delta_param keep
\* their values) and the statistics are never reset (they count every
\* decision of the run).
C27_ReannealDisabled ==
    (~this.enable_reanneal /\ client # "init")
    => /\ this.state # "NeedToComputeSet"
       /\ this.x_plusdelta = <<>>
       /\ this.param_hist_accepted # <<>>
            => this.x = this.param_hist_accepted[Len(this.param_hist_accepted)]
       /\ this.last_reanneal_steps = 0
       /\ this.delta_param = 1
       /\ this.k_r = Decided(this)
       /\ this.k = Decided(this) + 1
       /\ this.num_improved + this.num_worse = Decided(this)
       /\ this.num_accepted = Len(this.param_hist_accepted)

\* a run with reannealing disabled has gone past the point where the step
\* count would have asked for a reanneal
C27_Witness ==
    /\ ~this.enable_reanneal
    /\ this.steps >= 11 /\ this.state = "NeedToCompute"
    /\ this.k_r >= this.reanneal_after_steps

\* C28: after any step() that returns normally the state is NeedToCompute,
\* NeedToComputeSet or ReadyToStop; once init() has been called the caller
\* never sees Unknown, NeedToInit or NeedToStep.
C28_VisibleStates ==
    client # "init"
    => this.state \in {"NeedToCompute", "NeedToComputeSet", "ReadyToStop"}

\* a step() that set NeedToStep on its way (it completed a reanneal) has
\* returned
C28_Witness ==
    /\ exception = "none" /\ this.steps > 0
    /\ this.last_reanneal_steps = this.steps
    /\ this.state = "NeedToCompute"

\* s is an initial part of t
IsPrefix(s, t) == Len(s) <= Len(t) /\ SubSeq(t, 1, Len(s)) = s

\* C29: the histories are append-only and grow by exactly one entry per
\* non-terminal step: each step() whose stop_check() is false appends one
\* entry to exactly one of the accepted and the rejected history, no call
\* alters or removes an earlier entry, the parameter and objective histories
\* of each kind have equal length, and the two lengths sum to the number of
\* step() calls whose stop_check() was false.
C29_OneEntryPerStep ==
    [][/\ Len(this'.param_hist_accepted) = Len(this'.f_param_hist_accepted)
       /\ Len(this'.param_hist_rejected) = Len(this'.f_param_hist_rejected)
       /\ IsPrefix(this.param_hist_accepted, this'.param_hist_accepted)
       /\ IsPrefix(this.f_param_hist_accepted, this'.f_param_hist_accepted)
       /\ IsPrefix(this.param_hist_rejected, this'.param_hist_rejected)
       /\ IsPrefix(this.f_param_hist_rejected, this'.f_param_hist_rejected)
       /\ IF AboutToDecide /\ this'.steps = this.steps + 1
          THEN \/ AcceptedNow /\ Len(this'.param_hist_rejected) = Len(this.param_hist_rejected)
               \/ RejectedNow /\ Len(this'.param_hist_accepted) = Len(this.param_hist_accepted)
          ELSE Decided(this') = Decided(this)
       /\ this'.state # "ReadyToStop" => Decided(this') = this'.steps]_vars

\* C29, amended: the same, counting the step() calls whose stop_check() is
\* false and that return normally: a step() that fails in
\* complete_reanneal() has counted itself in steps and appends nothing.
C29_OneEntryPerReturningStep ==
    [][/\ Len(this'.param_hist_accepted) = Len(this'.f_param_hist_accepted)
       /\ Len(this'.param_hist_rejected) = Len(this'.f_param_hist_rejected)
       /\ IsPrefix(this.param_hist_accepted, this'.param_hist_accepted)
       /\ IsPrefix(this.f_param_hist_accepted, this'.f_param_hist_accepted)
       /\ IsPrefix(this.param_hist_rejected, this'.param_hist_rejected)
       /\ IsPrefix(this.f_param_hist_rejected, this'.f_param_hist_rejected)
       /\ IF AboutToDecide /\ this'.steps = this.steps + 1 /\ exception' = "none"
          THEN \/ AcceptedNow /\ Len(this'.param_hist_rejected) = Len(this.param_hist_rejected)
               \/ RejectedNow /\ Len(this'.param_hist_accepted) = Len(this.param_hist_accepted)
          ELSE Decided(this') = Decided(this)
       /\ (this'.state # "ReadyToStop" /\ exception' = "none")
            => Decided(this') = this'.steps]_vars

\* a run with entries in both histories has made one terminal step()
C29_Witness ==
    /\ this.state = "ReadyToStop"
    /\ Len(this.param_hist_accepted) >= 2
    /\ Len(this.param_hist_rejected) >= 2
    /\ this.steps = Decided(this) + 1

\* C30: reanneal requests are spaced out: no step() numbered below 10 returns
\* NeedToComputeSet, and two step() calls s < t that both return
\* NeedToComputeSet have t - s >= 11, also when the reanneal asked for at s
\* ended in a zero-tangent deferral; last_reanneal_steps <= steps always.
\* The step() after a request, numbered s + 1, is the only place where
\* last_reanneal_steps changes and it sets it to s + 1 (unless it stops the
\* run), so the request before a request at t was made at
\* last_reanneal_steps - 1.
C30_RequestsSpaced ==
    [][/\ this'.last_reanneal_steps <= this'.steps
       /\ (/\ this'.state = "NeedToComputeSet"
           /\ this'.steps = this.steps + 1 /\ exception' = "none")
          => /\ this'.steps >= 10
             /\ this'.last_reanneal_steps > 0
                  => this'.steps - (this'.last_reanneal_steps - 1) >= 11
       /\ (/\ this.state = "NeedToComputeSet"
           /\ this'.steps = this.steps + 1 /\ this'.state # "ReadyToStop")
          => this'.last_reanneal_steps = this.steps + 1
       /\ this.state # "NeedToComputeSet"
          => this'.last_reanneal_steps = this.last_reanneal_steps]_vars

\* a second request, made after the first one ended in a deferral
C30_Witness ==
    /\ client = "compute" /\ this.state = "NeedToComputeSet"
    /\ this.last_reanneal_steps >= 10
    /\ this.delta_param = 2
    /\ this.steps >= this.last_reanneal_steps + 10

Max(p, q) == IF p >= q THEN p ELSE q

\* the step() calls that have returned NeedToCompute since the run began or,
\* after a request, since the step() that asked for the last reanneal (the
\* step() before the one that set last_reanneal_steps)
SinceRequest(a) ==
    IF a.last_reanneal_steps = 0 THEN a.steps
    ELSE a.steps - a.last_reanneal_steps + 1

\* C31: reannealing is forced by the step count: with enable_reanneal true, at
\* most max(reanneal_after_steps, 11) consecutive step() calls return
\* NeedToCompute before one returns NeedToComputeSet or ReadyToStop, whatever
\* the accepted:generated ratio.
C31_ReannealForced ==
    (/\ this.enable_reanneal /\ exception = "none"
     /\ this.state = "NeedToCompute")
    => SinceRequest(this) <= Max(this.reanneal_after_steps, 11)

\* ten step() calls in a row have returned NeedToCompute since a reanneal was
\* asked for; the step count forces the next request
C31_Witness ==
    /\ this.enable_reanneal /\ client = "compute"
    /\ this.state = "NeedToCompute"
    /\ this.last_reanneal_steps >= 11
    /\ SinceRequest(this) = 10
    /\ this.k_r >= this.reanneal_after_steps

\* the value cooling_schedule() gives T_k[i] for the step count j
CoolingFormula(a, j, i) == a.T_0[i] + ((a.c[i] * Root(j, a.D)) \div LU)

\* C32: in every non-terminal step() the T_k that generate_next uses is the
\* cooling-formula value for the current k, the same in all D components: in
\* a step that completes a reanneal the per-dimension T_re that
\* complete_reanneal assigned is overwritten by cooling_schedule before a
\* candidate is generated.  Nothing writes T_k between cooling_schedule and
\* the return of step(), which adds one to k, so the value generate_next used
\* is the one the step leaves.
C32_GenerationTemperature ==
    (Decided(this) >= 1)
    => \A i \in 1..this.D :
          /\ this.T_k[i] = CoolingFormula(this, this.k - 1, i)
          /\ this.T_k[i] = this.T_k[1]

\* a step() has completed a reanneal whose tangents, and so whose T_re,
\* differed between the two dimensions
C32_Witness ==
    /\ exception = "none" /\ this.D = 2
    /\ this.steps > 0 /\ this.last_reanneal_steps = this.steps
    /\ this.k_r = 1
    /\ ~has_zero(this.tangents)
    /\ LnAbsTan(this.tangents[1]) # LnAbsTan(this.tangents[2])

\* C33: the first step() after init() whose stop_check() is false always
\* accepts the initially evaluated point, with downhill true and with
\* downhill false: when it returns, x and x_best are the initial point, f_x
\* and f_x_best are the objective the caller stored in f_x_cand, the accepted
\* history has exactly one entry and the rejected history is empty.
C33_FirstStepAccepts ==
    [][(AboutToDecide /\ this.steps = 0 /\ this'.steps = 1)
       => /\ this'.x = initial_params
          /\ this'.x_best = initial_params
          /\ this'.f_x = this.f_x_cand
          /\ this'.f_x_best = this.f_x_cand
          /\ this'.param_hist_accepted = <<initial_params>>
          /\ this'.f_param_hist_accepted = <<this.f_x_cand>>
          /\ this'.param_hist_rejected = <<>>]_vars

SeqMin(v) == CHOOSE e \in {v[i] : i \in 1..Len(v)} : \A j \in 1..Len(v) : e <= v[j]

\* C34: in downhill mode, with a caller that follows the protocol and a
\* deterministic objective F, in every state after the first non-terminal
\* step(): f_x_best is the minimum of the values in f_param_hist_accepted,
\* f_x_best = F(x_best), and f_x_best <= f_x.
C34_BestIsMinimum ==
    (this.downhill /\ Decided(this) >= 1)
    => /\ this.f_param_hist_accepted # <<>>
       /\ this.f_x_best = SeqMin(this.f_param_hist_accepted)
       /\ this.f_x_best = F(objective, this.x_best)
       /\ this.f_x_best <= this.f_x

\* after a reanneal the best point has moved away from the initial point and
\* the walk stands at a worse point than the best
C34_Witness ==
    /\ this.downhill /\ exception = "none"
    /\ this.last_reanneal_steps > 0
    /\ Len(this.f_param_hist_accepted) >= 3
    /\ this.x_best # initial_params
    /\ this.f_x_best < this.f_x

\* C35: the accepted:generated ratio is never computed with a zero
\* denominator: reanneal_test runs at the end of a step(), on the counters
\* the step leaves, and there num_improved + num_worse >= 1, also in the
\* step() that has just reset the statistics by completing a reanneal; and
\* num_accepted <= num_improved + num_worse in every reachable state.
C35_RatioDefined ==
    /\ Decided(this) >= 1 => this.num_improved + this.num_worse >= 1
    /\ this.num_accepted <= this.num_improved + this.num_worse

\* the step() that completed a reanneal has returned with a rejected
\* candidate: one generated, none accepted
C35_Witness ==
    /\ client = "compute" /\ exception = "none"
    /\ this.last_reanneal_steps = this.steps /\ this.steps > ReannealGap
    /\ this.k_r = 1
    /\ this.num_improved + this.num_worse = 1
    /\ this.num_accepted = 0

\* C36: the control constants are derived once, at init(), and never change
\* afterwards: no step() call, requesting, deferring or completing a reanneal
\* included, modifies m, n, c, c_cost, T_0, T_f, T_cost_0, k_f, range_min or
\* range_max.
C36_ConstantsFrozen ==
    [][client # "init"
       => /\ this'.m = this.m /\ this'.n = this.n
          /\ this'.c = this.c /\ this'.c_cost = this.c_cost
          /\ this'.T_0 = this.T_0 /\ this'.T_f = this.T_f
          /\ this'.T_cost_0 = this.T_cost_0 /\ this'.k_f = this.k_f
          /\ this'.range_min = this.range_min
          /\ this'.range_max = this.range_max]_vars

\* a run in which a reanneal was requested and completed goes on with the
\* constants of init()
C36_Witness ==
    /\ client = "step" /\ exception = "none"
    /\ this.last_reanneal_steps > 0 /\ Rescaled(this)
    /\ this.steps > this.last_reanneal_steps
    /\ this.c = [i \in 1..this.D |-> MulMicro(this.m[i], ExpNeg(this.n[i] \div this.D))]
    /\ this.T_f = [i \in 1..this.D |-> this.T_0[i] + this.m[i]]

\* C37: a complete_reanneal() in which no tangent is zero, NaN or infinite
\* sets last_reanneal_steps to the current steps and k to the step count
\* recomputed from T_re, and returns with num_improved, num_worse,
\* num_worse_accepted, num_accepted and k_r all zero; when the step() that
\* called it returns, k_r = 1 and num_improved + num_worse = 1 (and k is one
\* more than the recomputed count).
C37_CompletedReanneal ==
    [][(AboutToRescale /\ this'.steps = this.steps + 1)
       => LET a1 == [this EXCEPT !.steps = this.steps + 1]
              b  == complete_reanneal(a1)
          IN  /\ b.last_reanneal_steps = this.steps + 1
              /\ b.k = KRe(a1, TRe(a1, Tangents(a1)))
              /\ b.num_improved = 0 /\ b.num_worse = 0
              /\ b.num_worse_accepted = 0 /\ b.num_accepted = 0 /\ b.k_r = 0
              /\ this'.last_reanneal_steps = this'.steps
              /\ this'.k = b.k + 1
              /\ this'.k_r = 1
              /\ this'.num_improved + this'.num_worse = 1]_vars

\* a step() that completed a reanneal has returned with a step count k that
\* the rescaling moved back
C37_Witness ==
    /\ client = "compute" /\ exception = "none"
    /\ this.last_reanneal_steps = this.steps /\ this.steps > ReannealGap
    /\ ~has_zero(this.tangents)
    /\ this.k_r = 1
    /\ this.k < this.steps + 1

=============================================================================
